---- MODULE Spec2Model ----
(***************************************************************************)
(* Expense-sharing ledger: the split resolver (resolveSplits,              *)
(* validateSplitInput), the balance simplifier (simplifyBalances) and the  *)
(* three ledger workflows (expense creation, expense deletion, settlement  *)
(* recording) that apply them to the persisted per-member balances.        *)
(*                                                                         *)
(* Number representation.  Money that the resolver returns and the ledger  *)
(* stores has 2 fraction digits and is an integer number of cents.  A      *)
(* participant's `value` (a JavaScript number: an amount for EXACT, a      *)
(* percentage for PERCENTAGE) and a simplifier balance (a Decimal of any   *)
(* precision) are integers in thousandths: 50005 is 50.005, 5 is 0.005.    *)
(* Decimal arithmetic is exact on these magnitudes (20 significant         *)
(* digits), so integer arithmetic models it.  Binary floating point is     *)
(* exact enough to decide every comparison with the 0.01 tolerance except  *)
(* when the decimal difference is exactly 0.01; there the outcome depends  *)
(* on the operands' binary rounding and is an input of the model (fpOver). *)
(***************************************************************************)
EXTENDS Integers, Sequences, FiniteSets, TLC

VARIABLES
    balance,        \* GroupMember.balance of every member, committed (cents)
    expenses,       \* committed Expense rows, each with its splits
    settlements,    \* committed Settlement rows, in creation order
    txs,            \* open interactive transactions ($transaction), by slot
    nextExpenseId,  \* ids handed out so far (stands for the uuid generator)
    response,       \* the HTTP response most recently sent
    suggested,      \* transfers of the last GET /balances not yet recorded
    rPc,            \* resolver call: "input", "validated", "returned" ("idle")
    rInput,         \* resolver call: totalAmount, splitType, participants
    rErrors,        \* resolver call: the messages validateSplitInput returned
    rResult,        \* resolver call: shares returned or error thrown
    sPc,            \* simplifier call: "input", "loop", "returned" ("idle")
    sInput,         \* simplifier call: the balances argument
    creditors,      \* simplifyBalances' creditors array (mutable copies)
    debtors,        \* simplifyBalances' debtors array (absolute values)
    creditorIdx,    \* simplifyBalances' creditorIdx cursor
    debtorIdx,      \* simplifyBalances' debtorIdx cursor
    sSettlements    \* simplifyBalances' settlements array

ledgerVars == <<balance, expenses, settlements, txs, nextExpenseId, response, suggested>>
resolverVars == <<rPc, rInput, rErrors, rResult>>
simplifierVars == <<sPc, sInput, creditors, debtors, creditorIdx, debtorIdx, sSettlements>>
vars == <<balance, expenses, settlements, txs, nextExpenseId, response, suggested,
          rPc, rInput, rErrors, rResult,
          sPc, sInput, creditors, debtors, creditorIdx, debtorIdx, sSettlements>>

----------------------------------------------------------------------------
(* Arithmetic helpers *)

Abs(x) == IF x < 0 THEN -x ELSE x

Min(a, b) == IF a <= b THEN a ELSE b

\* Decimal.toDecimalPlaces(2, ROUND_DOWN) of a/b: truncation toward zero.
TruncDiv(a, b) ==
    IF (a >= 0) = (b > 0) THEN Abs(a) \div Abs(b) ELSE -(Abs(a) \div Abs(b))

\* Decimal.toDecimalPlaces(2) under the default rounding mode ROUND_HALF_UP
\* (nearest, ties away from zero): thousandths in, cents out.
RoundHalfUp(t) == IF t >= 0 THEN (t + 5) \div 10 ELSE -((5 - t) \div 10)

RECURSIVE SumValues(_)
\* reduce((acc, p) => acc + (p.value || 0), 0): an absent value counts 0.
SumValues(ps) ==
    IF ps = <<>> THEN 0
    ELSE (IF Head(ps).hasValue THEN Head(ps).value ELSE 0) + SumValues(Tail(ps))

RECURSIVE SumAmounts(_)
\* reduce((acc, s) => acc.plus(s.amount), new Decimal(0))
SumAmounts(ss) ==
    IF ss = <<>> THEN 0 ELSE Head(ss).amount + SumAmounts(Tail(ss))

\* The comparison `difference > 0.01` on a difference given in thousandths.
\* Decimal compares exactly; binary floating point decides the exact tie by
\* the rounding of its operands (fpOver).
ExceedsToleranceDecimal(diff) == Abs(diff) > 10

ExceedsToleranceFloat(diff, fpOver) ==
    \/ Abs(diff) > 10
    \/ Abs(diff) = 10 /\ fpOver

----------------------------------------------------------------------------
(* Split resolver: src/backend/src/utils/splitCalculator.ts *)

Thrown(msg) == [ok |-> FALSE, error |-> msg, splits |-> <<>>]

Returned(ss) == [ok |-> TRUE, error |-> "", splits |-> ss]

\* A faulty variant of resolveEqualSplit: the remainder goes to the last participant.
resolveEqualSplitLast(totalAmount, participants) ==
    LET count == Len(participants)
        baseAmount == TruncDiv(totalAmount, count)
        remainder == totalAmount - baseAmount * count
    IN  Returned([index \in 1..count |->
            [userId |-> participants[index].userId,
             amount |-> IF index = count THEN baseAmount + remainder
                        ELSE baseAmount]])

\* A faulty variant of resolveEqualSplit: the base amount is rounded half up
\* instead of down.
resolveEqualSplitRoundHalfUp(totalAmount, participants) ==
    LET count == Len(participants)
        baseAmount == TruncDiv(2 * totalAmount + count, 2 * count)
        remainder == totalAmount - baseAmount * count
    IN  Returned([index \in 1..count |->
            [userId |-> participants[index].userId,
             amount |-> IF index = 1 THEN baseAmount + remainder
                        ELSE baseAmount]])

resolveEqualSplit(totalAmount, participants) ==
    LET count == Len(participants)
        baseAmount == TruncDiv(totalAmount, count)
        totalBase == baseAmount * count
        remainder == totalAmount - totalBase
    IN  Returned([index \in 1..count |->
            [userId |-> participants[index].userId,
             amount |-> IF index = 1 THEN baseAmount + remainder
                        ELSE baseAmount]])

\* A faulty variant of resolveExactSplit: a sum exactly 0.01 off is rejected.
resolveExactSplitStrict(totalAmount, participants) ==
    IF \E i \in 1..Len(participants) :
           \/ ~participants[i].hasValue
           \/ participants[i].value < 0
    THEN Thrown("Invalid exact amount")
    ELSE IF Abs(SumValues(participants) - 10 * totalAmount) >= 10
    THEN Thrown("Exact split amounts don't equal total")
    ELSE Returned([i \in 1..Len(participants) |->
            [userId |-> participants[i].userId,
             amount |-> RoundHalfUp(participants[i].value)]])

resolveExactSplit(totalAmount, participants) ==
    LET sum == SumValues(participants)
    IN  IF \E i \in 1..Len(participants) :
               \/ ~participants[i].hasValue
               \/ participants[i].value < 0
        THEN Thrown("Invalid exact amount")
        ELSE IF ExceedsToleranceDecimal(sum - 10 * totalAmount)
        THEN Thrown("Exact split amounts don't equal total")
        ELSE Returned([i \in 1..Len(participants) |->
                [userId |-> participants[i].userId,
                 amount |-> RoundHalfUp(participants[i].value)]])

\* A faulty variant of resolvePercentageSplit: the remainder is added to the first
\* share whatever its sign.
resolvePercentageSplitAlways(totalAmount, participants, fpOver) ==
    LET n == Len(participants)
        raw == [i \in 1..n |->
                 [userId |-> participants[i].userId,
                  amount |-> TruncDiv(totalAmount * participants[i].value, 100000)]]
        remainder == totalAmount - SumAmounts(raw)
    IN  IF \E i \in 1..n :
               \/ ~participants[i].hasValue
               \/ participants[i].value < 0
               \/ participants[i].value > 100000
        THEN Thrown("Invalid percentage")
        ELSE IF ExceedsToleranceFloat(SumValues(participants) - 100000, fpOver)
        THEN Thrown("Percentages must sum to 100")
        ELSE Returned([i \in 1..n |->
                IF i = 1 THEN [raw[1] EXCEPT !.amount = @ + remainder]
                ELSE raw[i]])

\* A faulty variant of resolvePercentageSplit: the remainder is dropped.
resolvePercentageSplitNoRemainder(totalAmount, participants, fpOver) ==
    LET n == Len(participants)
    IN  IF \E i \in 1..n :
               \/ ~participants[i].hasValue
               \/ participants[i].value < 0
               \/ participants[i].value > 100000
        THEN Thrown("Invalid percentage")
        ELSE IF ExceedsToleranceFloat(SumValues(participants) - 100000, fpOver)
        THEN Thrown("Percentages must sum to 100")
        ELSE Returned([i \in 1..n |->
                [userId |-> participants[i].userId,
                 amount |-> TruncDiv(totalAmount * participants[i].value, 100000)]])

resolvePercentageSplit(totalAmount, participants, fpOver) ==
    LET n == Len(participants)
        totalPercentage == SumValues(participants)
        splits == [i \in 1..n |->
                    [userId |-> participants[i].userId,
                     amount |-> TruncDiv(totalAmount * participants[i].value, 100000)]]
        calculatedSum == SumAmounts(splits)
        remainder == totalAmount - calculatedSum
    IN  IF \E i \in 1..n :
               \/ ~participants[i].hasValue
               \/ participants[i].value < 0
               \/ participants[i].value > 100000
        THEN Thrown("Invalid percentage")
        ELSE IF ExceedsToleranceFloat(totalPercentage - 100000, fpOver)
        THEN Thrown("Percentages must sum to 100")
        ELSE Returned([i \in 1..n |->
                IF i = 1 /\ remainder > 0
                THEN [splits[1] EXCEPT !.amount = @ + remainder]
                ELSE splits[i]])

resolveSplits(totalAmount, splitType, participants, fpOver) ==
    IF Len(participants) = 0 THEN Thrown("At least one participant is required")
    ELSE CASE splitType = "EQUAL" -> resolveEqualSplit(totalAmount, participants)
           [] splitType = "EXACT" -> resolveExactSplit(totalAmount, participants)
           [] splitType = "PERCENTAGE" ->
                resolvePercentageSplit(totalAmount, participants, fpOver)
           [] OTHER -> Thrown("Unknown split type")

\* validateSplitInput: the list of error messages, in the order pushed.
validateSplitInput(splitType, totalAmount, participants, fpOver) ==
    LET n == Len(participants)
        sum == SumValues(participants)
        e1 == IF n = 0 THEN <<"At least one participant is required">> ELSE <<>>
        e2 == IF totalAmount <= 0 THEN <<"Amount must be greater than 0">> ELSE <<>>
        e3 == IF Cardinality({participants[i].userId : i \in 1..n}) # n
              THEN <<"Duplicate participants are not allowed">> ELSE <<>>
        e4 == IF splitType = "EXACT"
                 /\ ExceedsToleranceFloat(sum - 10 * totalAmount, fpOver)
              THEN <<"Exact amounts must sum to total">> ELSE <<>>
        e5 == IF splitType = "PERCENTAGE"
                 /\ ExceedsToleranceFloat(sum - 100000, fpOver)
              THEN <<"Percentages must sum to 100">> ELSE <<>>
    IN  e1 \o e2 \o e3 \o e4 \o e5

----------------------------------------------------------------------------
(* Resolver calls: inputs drawn from bounded sets *)

MaxParticipants == 3

MaxTotal == 4

\* totalAmount in cents: -0.01, 0.00, every small total, 1.00 and 200.00.
Totals == (-1..MaxTotal) \cup {100, 20000}

UserIds == {"u1", "u2", "u3"}

SplitTypes == {"EQUAL", "EXACT", "PERCENTAGE"}

NoValue == [hasValue |-> FALSE, value |-> 0]

Value(v) == [hasValue |-> TRUE, value |-> v]

\* `value` inputs in thousandths, by the policy that reads them.
ValuesFor(splitType) ==
    CASE splitType = "EQUAL" -> {NoValue}
      [] splitType = "EXACT" ->
            {NoValue} \cup {Value(v) : v \in {-5, 0, 5, 10, 15, 20}}
      [] splitType = "PERCENTAGE" ->
            {NoValue} \cup {Value(v) : v \in {-10000, 0, 33330, 33340, 50000,
                                              50005, 100000, 110000}}

ParticipantsFor(splitType, maxLen) ==
    UNION {[1..n -> {[userId |-> u, hasValue |-> x.hasValue, value |-> x.value] :
                       u \in UserIds, x \in ValuesFor(splitType)}] : n \in 0..maxLen}

\* Whether the decimal sum of the values sits exactly 0.01 from its target,
\* where the floating-point comparison can go either way.
AtFloatTie(splitType, totalAmount, participants) ==
    \/ splitType = "EXACT" /\ Abs(SumValues(participants) - 10 * totalAmount) = 10
    \/ splitType = "PERCENTAGE" /\ Abs(SumValues(participants) - 100000) = 10

NoResult == [ok |-> FALSE, error |-> "not called", splits |-> <<>>]

LedgerIdle ==
    /\ balance = [u \in UserIds |-> 0]
    /\ expenses = {}
    /\ settlements = <<>>
    /\ txs = <<>>
    /\ nextExpenseId = 1
    /\ response = [op |-> "none", status |-> 0, phase |-> "none"]
    /\ suggested = <<>>

SimplifierIdle ==
    /\ sPc = "idle"
    /\ sInput = <<>>
    /\ creditors = <<>>
    /\ debtors = <<>>
    /\ creditorIdx = 0
    /\ debtorIdx = 0
    /\ sSettlements = <<>>

ResolverIdle ==
    /\ rPc = "idle"
    /\ rInput = [totalAmount |-> 0, splitType |-> "EQUAL", participants |-> <<>>,
                 fpOver |-> FALSE]
    /\ rErrors = <<>>
    /\ rResult = NoResult

InitResolve ==
    /\ LedgerIdle
    /\ SimplifierIdle
    /\ rPc = "input"
    /\ rErrors = <<>>
    /\ rResult = NoResult
    /\ \E t \in Totals, st \in SplitTypes, fp \in BOOLEAN :
         \E ps \in ParticipantsFor(st, MaxParticipants) :
            /\ fp => AtFloatTie(st, t, ps)
            /\ rInput = [totalAmount |-> t, splitType |-> st, participants |-> ps,
                         fpOver |-> fp]

\* One call validateSplitInput(splitType, totalAmount, participants).
ValidateCall ==
    /\ rPc = "input"
    /\ rErrors' = validateSplitInput(rInput.splitType, rInput.totalAmount,
                                     rInput.participants, rInput.fpOver)
    /\ rPc' = "validated"
    /\ UNCHANGED <<rInput, rResult, ledgerVars, simplifierVars>>

\* One call resolveSplits(totalAmount, splitType, participants, payerId), made
\* whatever validateSplitInput returned.
ResolveCall ==
    /\ rPc = "validated"
    /\ rResult' = resolveSplits(rInput.totalAmount, rInput.splitType,
                                rInput.participants, rInput.fpOver)
    /\ rPc' = "returned"
    /\ UNCHANGED <<rInput, rErrors, ledgerVars, simplifierVars>>

NextResolve == ValidateCall \/ ResolveCall

SpecResolve == InitResolve /\ [][NextResolve]_vars

----------------------------------------------------------------------------
(* Balance simplifier: simplifyBalances, src/backend/src/utils/splitCalculator.ts *)

RECURSIVE InsertByBalanceBeforeEqual(_, _)
\* A faulty variant of InsertByBalance: x goes before the elements equal to it.
InsertByBalanceBeforeEqual(x, sorted) ==
    IF sorted = <<>> THEN <<x>>
    ELSE IF Head(sorted).balance > x.balance
         THEN <<Head(sorted)>> \o InsertByBalanceBeforeEqual(x, Tail(sorted))
         ELSE <<x>> \o sorted

RECURSIVE InsertByBalance(_, _)
\* Where a stable sort under sortByBalance (b.balance - a.balance: descending)
\* puts x among already sorted earlier elements: after every element that is
\* not smaller, so equal balances keep their input order.
InsertByBalance(x, sorted) ==
    IF sorted = <<>> THEN <<x>>
    ELSE IF Head(sorted).balance >= x.balance
         THEN <<Head(sorted)>> \o InsertByBalance(x, Tail(sorted))
         ELSE <<x>> \o sorted

\* A faulty variant of SortByBalance: the array is left in input order.
SortByBalanceUnsorted(bs) == bs

RECURSIVE SortByBalance(_)
\* Array.prototype.sort(sortByBalance), a stable sort.
SortByBalance(bs) ==
    IF bs = <<>> THEN <<>>
    ELSE InsertByBalance(bs[Len(bs)], SortByBalance(SubSeq(bs, 1, Len(bs) - 1)))

\* The for loop that fills creditors: entries with balance > 0, copied.
CreditorsOf(balances) ==
    SelectSeq(balances, LAMBDA b : b.balance > 0)

\* A faulty variant of DebtorsOf: the debts keep their sign (no .abs()).
DebtorsOfSigned(balances) ==
    SelectSeq(balances, LAMBDA b : b.balance < 0)

\* The for loop that fills debtors: entries with balance < 0, stored as their
\* absolute value.
DebtorsOf(balances) ==
    LET neg == SelectSeq(balances, LAMBDA b : b.balance < 0)
    IN  [i \in 1..Len(neg) |-> [userId |-> neg[i].userId, balance |-> Abs(neg[i].balance)]]

\* A faulty variant of NewSettlement: the debtor is also named as the payee.
NewSettlementToSelf(debtor, creditor, transferAmount) ==
    [fromUserId |-> debtor.userId, toUserId |-> debtor.userId,
     amount |-> RoundHalfUp(transferAmount)]

\* A faulty variant of NewSettlement: payer and payee are swapped.
NewSettlementSwapped(debtor, creditor, transferAmount) ==
    [fromUserId |-> creditor.userId, toUserId |-> debtor.userId,
     amount |-> RoundHalfUp(transferAmount)]

\* The object pushed on settlements: the amount is rounded to 2 decimals.
NewSettlement(debtor, creditor, transferAmount) ==
    [fromUserId |-> debtor.userId, toUserId |-> creditor.userId,
     amount |-> RoundHalfUp(transferAmount)]

\* A faulty variant of TransferAmount: at most one cent moves per iteration.
TransferAmountOneCent(creditor, debtor) ==
    Min(10, Min(creditor.balance, debtor.balance))

\* A faulty variant of TransferAmount: the larger of the two balances moves.
TransferAmountMax(creditor, debtor) ==
    IF creditor.balance >= debtor.balance THEN creditor.balance ELSE debtor.balance

\* Decimal.min(creditor.balance, debtor.balance)
TransferAmount(creditor, debtor) == Min(creditor.balance, debtor.balance)

\* A faulty variant of Advance: a settled entry moves the cursor two places.
AdvanceTwo(idx, left) == IF left <= 0 THEN idx + 2 ELSE idx

\* A faulty variant of Advance: the cursor moves only past a negative balance.
AdvanceIfNegative(idx, left) == IF left < 0 THEN idx + 1 ELSE idx

\* `if (x.balance.lessThanOrEqualTo(0)) { xIdx++; }` for either cursor.
Advance(idx, left) == IF left <= 0 THEN idx + 1 ELSE idx

MaxBalances == 4

\* Balances in thousandths: whole cents (multiples of 10) and sub-cent values.
BalanceValues == {-30, -20, -15, -10, -5, -4, 0, 4, 5, 10, 15, 20, 30}

\* Whole-cent balances of the lists one entry longer than MaxBalances.
LongBalanceValues == {-30, -20, 10, 20}

\* userId columns: all distinct, or the first id repeated.
IdPatterns == {<<"A", "B", "C", "D", "E", "F", "G">>,
               <<"A", "A", "B", "C", "D", "E", "F">>}

InitSimplify ==
    /\ LedgerIdle
    /\ ResolverIdle
    /\ sPc = "input"
    /\ creditors = <<>>
    /\ debtors = <<>>
    /\ creditorIdx = 0
    /\ debtorIdx = 0
    /\ sSettlements = <<>>
    /\ \E n \in 0..(MaxBalances + 1), ids \in IdPatterns :
         \E bals \in [1..n -> IF n <= MaxBalances THEN BalanceValues
                                ELSE LongBalanceValues] :
            sInput = [i \in 1..n |-> [userId |-> ids[i], balance |-> bals[i]]]

\* Entry of simplifyBalances up to the while loop: partition, sort, cursors.
SimplifyBegin ==
    /\ sPc = "input"
    /\ creditors' = SortByBalance(CreditorsOf(sInput))
    /\ debtors' = SortByBalance(DebtorsOf(sInput))
    /\ creditorIdx' = 0
    /\ debtorIdx' = 0
    /\ sSettlements' = <<>>
    /\ sPc' = "loop"
    /\ UNCHANGED <<sInput, ledgerVars, resolverVars>>

\* One iteration of the while loop.
SimplifyStep ==
    /\ sPc = "loop"
    /\ creditorIdx < Len(creditors)
    /\ debtorIdx < Len(debtors)
    /\ LET creditor == creditors[creditorIdx + 1]
           debtor == debtors[debtorIdx + 1]
           transferAmount == TransferAmount(creditor, debtor)
           creditorLeft == creditor.balance - transferAmount
           debtorLeft == debtor.balance - transferAmount
       IN  /\ sSettlements' =
                IF transferAmount > 0
                THEN Append(sSettlements, NewSettlement(debtor, creditor, transferAmount))
                ELSE sSettlements
           /\ creditors' = [creditors EXCEPT ![creditorIdx + 1].balance = creditorLeft]
           /\ debtors' = [debtors EXCEPT ![debtorIdx + 1].balance = debtorLeft]
           /\ creditorIdx' = Advance(creditorIdx, creditorLeft)
           /\ debtorIdx' = Advance(debtorIdx, debtorLeft)
    /\ UNCHANGED <<sPc, sInput, ledgerVars, resolverVars>>

\* Loop exit and `return settlements`.
SimplifyReturn ==
    /\ sPc = "loop"
    /\ ~(creditorIdx < Len(creditors) /\ debtorIdx < Len(debtors))
    /\ sPc' = "returned"
    /\ UNCHANGED <<sInput, creditors, debtors, creditorIdx, debtorIdx, sSettlements,
                   ledgerVars, resolverVars>>

NextSimplify == SimplifyBegin \/ SimplifyStep \/ SimplifyReturn

SpecSimplify == InitSimplify /\ [][NextSimplify]_vars

MaxLiveBalances == 3

\* Balances (thousandths) of the calls followed to their end.
LiveBalanceValues == {-20, -10, -4, 0, 5, 10, 20}

InitSimplifyLive ==
    /\ LedgerIdle
    /\ ResolverIdle
    /\ sPc = "input"
    /\ creditors = <<>>
    /\ debtors = <<>>
    /\ creditorIdx = 0
    /\ debtorIdx = 0
    /\ sSettlements = <<>>
    /\ \E n \in 0..MaxLiveBalances, ids \in IdPatterns :
         \E bals \in [1..n -> LiveBalanceValues] :
            sInput = [i \in 1..n |-> [userId |-> ids[i], balance |-> bals[i]]]

\* A call runs on one thread with nothing to wait for: whenever the function
\* has a next step it takes it.
SpecSimplifyLive == InitSimplifyLive /\ [][NextSimplify]_vars /\ WF_vars(NextSimplify)

----------------------------------------------------------------------------
(* Ledger workflows: src/backend/src/modules/expenses/routes.ts and        *)
(* src/backend/src/modules/settlements/routes.ts.                          *)
(*                                                                         *)
(* prisma.$transaction(async (tx) => ...) is an interactive database       *)
(* transaction: what its statements write is invisible to every other      *)
(* request until it commits, and is dropped when the callback throws or    *)
(* the database aborts it.  Balance writes are increments, which commute,  *)
(* so a transaction holds the increments it has issued (pending) and its   *)
(* commit adds them to the committed balances.                             *)

\* The group's members (GroupMember rows) and a user outside the group.
Members == UserIds

Outsider == "x"

MaxTx == 2

MaxExpenses == 2

MaxSettlements == 1

MaxRequestParticipants == 2

NoExpense == [id |-> 0, payerId |-> "", amount |-> 0, splits |-> <<>>]

NoSettlement == [fromUserId |-> "", toUserId |-> "", amount |-> 0]

NoPending == [u \in Members |-> 0]

NoTx == [op |-> "none", userId |-> "", expense |-> NoExpense,
         settlement |-> NoSettlement, todo |-> <<>>, pending |-> NoPending]

\* Who sends creation requests (the authenticated req.userId): a member, or a
\* user outside the group.  u2 and u3 are members who only take part.
ExpenseRequesters == {"u1", Outsider}

\* Who can be named as a participant of an expense.
RequestParticipantIds == {"u1", "u2", Outsider}

\* Who sends settlement requests (the payer, req.userId).
SettlementRequesters == {"u2", Outsider}

\* Request bodies of POST /:groupId/expenses, amounts in cents (0.00, 0.03).
RequestAmounts == {0, 3}

RequestValuesFor(splitType) ==
    CASE splitType = "EQUAL" -> {NoValue}
      [] splitType = "EXACT" -> {NoValue, Value(15), Value(30)}
      [] splitType = "PERCENTAGE" -> {Value(50000), Value(100000)}

RequestParticipantsFor(splitType) ==
    UNION {[1..n -> {[userId |-> u, hasValue |-> x.hasValue, value |-> x.value] :
                       u \in RequestParticipantIds, x \in RequestValuesFor(splitType)}] :
           n \in 0..MaxRequestParticipants}

CreateExpenseRequests ==
    UNION {{r \in [userId : ExpenseRequesters, amount : RequestAmounts,
                   splitType : {st}, participants : RequestParticipantsFor(st),
                   fpOver : BOOLEAN] :
              r.fpOver => AtFloatTie(st, r.amount, r.participants)} :
           st \in SplitTypes}

\* createExpenseSchema.parse: amount positive, at least one participant.
createExpenseSchemaOk(req) == req.amount > 0 /\ Len(req.participants) >= 1

Rejected(code) == [status |-> code, proceed |-> FALSE, payerId |-> "", amount |-> 0,
                   splits |-> <<>>]

\* A faulty variant of CreateExpenseOutcome: the `return` after the validation
\* error's res.status(400) is missing, so the handler goes on.
CreateExpenseOutcomeNoReturn(req) ==
    IF ~createExpenseSchemaOk(req) THEN Rejected(400)
    ELSE IF req.userId \notin Members THEN Rejected(403)
    ELSE IF \E i \in 1..Len(req.participants) : req.participants[i].userId \notin Members
    THEN Rejected(400)
    ELSE LET r == resolveSplits(req.amount, req.splitType, req.participants, req.fpOver)
         IN  IF ~r.ok THEN Rejected(500)
             ELSE [status |-> IF validateSplitInput(req.splitType, req.amount,
                                        req.participants, req.fpOver) # <<>>
                              THEN 400 ELSE 201,
                   proceed |-> TRUE, payerId |-> req.userId,
                   amount |-> req.amount, splits |-> r.splits]

\* POST /:groupId/expenses up to the transaction: the response status of a
\* request that ends there, or the resolved splits the transaction will apply.
CreateExpenseOutcome(req) ==
    IF ~createExpenseSchemaOk(req) THEN Rejected(400)
    ELSE IF req.userId \notin Members THEN Rejected(403)
    ELSE IF \E i \in 1..Len(req.participants) : req.participants[i].userId \notin Members
    THEN Rejected(400)
    ELSE IF validateSplitInput(req.splitType, req.amount, req.participants, req.fpOver)
            # <<>>
    THEN Rejected(400)
    ELSE LET resolvedSplits == resolveSplits(req.amount, req.splitType,
                                             req.participants, req.fpOver)
         IN  IF ~resolvedSplits.ok THEN Rejected(500)
             ELSE [status |-> 201, proceed |-> TRUE, payerId |-> req.userId,
                   amount |-> req.amount, splits |-> resolvedSplits.splits]

\* What the handler does with each request body: it depends on the body and
\* the (fixed) membership only, never on the ledger.
CreateExpenseOutcomes == {CreateExpenseOutcome(req) : req \in CreateExpenseRequests}

\* A faulty variant of GroupMemberUpdate: the update goes through the global client
\* (prisma.groupMember.update) and is committed at once.
GroupMemberUpdateAutocommit(bal, pending, userId, delta) ==
    [balance |-> [bal EXCEPT ![userId] = @ + delta], pending |-> pending]

\* tx.groupMember.update({data: {balance: {increment | decrement}}}) inside a
\* transaction: buffered until the commit.
GroupMemberUpdate(bal, pending, userId, delta) ==
    [balance |-> bal, pending |-> [pending EXCEPT ![userId] = @ + delta]]

\* The balance updates of the creation transaction, in statement order:
\* credit the payer with the total, then debit each split.
CreateExpenseUpdates(payerId, amount, splits) ==
    <<[userId |-> payerId, delta |-> amount]>>
    \o [i \in 1..Len(splits) |-> [userId |-> splits[i].userId, delta |-> -splits[i].amount]]

\* A faulty variant of DeleteExpenseUpdates: the payer's credit is not reversed.
DeleteExpenseUpdatesNoPayer(expense) ==
    [i \in 1..Len(expense.splits) |->
        [userId |-> expense.splits[i].userId, delta |-> expense.splits[i].amount]]

\* The balance updates of the deletion transaction, in statement order.
DeleteExpenseUpdates(expense) ==
    <<[userId |-> expense.payerId, delta |-> -expense.amount]>>
    \o [i \in 1..Len(expense.splits) |->
          [userId |-> expense.splits[i].userId, delta |-> expense.splits[i].amount]]

\* A faulty variant of SettlementUpdates: the payer is debited and the payee
\* credited.
SettlementUpdatesReversed(fromUserId, toUserId, amount) ==
    <<[userId |-> fromUserId, delta |-> -amount], [userId |-> toUserId, delta |-> amount]>>

\* The balance updates of the settlement transaction.
SettlementUpdates(fromUserId, toUserId, amount) ==
    <<[userId |-> fromUserId, delta |-> amount], [userId |-> toUserId, delta |-> -amount]>>

FreeSlots == {i \in 1..MaxTx : txs[i].op = "none"}

OpenSlots == {i \in 1..MaxTx : txs[i].op # "none"}

FirstFree == CHOOSE i \in FreeSlots : \A j \in FreeSlots : i <= j

Respond(op, status, phase) == [op |-> op, status |-> status, phase |-> phase]

InitLedger ==
    /\ ResolverIdle
    /\ SimplifierIdle
    /\ balance = [u \in Members |-> 0]
    /\ expenses = {}
    /\ settlements = <<>>
    /\ txs = [i \in 1..MaxTx |-> NoTx]
    /\ nextExpenseId = 1
    /\ response = Respond("none", 0, "none")
    /\ suggested = <<>>

\* POST /:groupId/expenses from the request to the transaction's first
\* statement, tx.expense.create.
ExpenseCreate ==
    \E o \in CreateExpenseOutcomes :
        /\ IF o.proceed
           THEN /\ FreeSlots # {}
                /\ nextExpenseId <= MaxExpenses
                /\ txs' = [txs EXCEPT ![FirstFree] =
                             [op |-> "createExpense", userId |-> o.payerId,
                              expense |-> [id |-> nextExpenseId, payerId |-> o.payerId,
                                           amount |-> o.amount, splits |-> o.splits],
                              settlement |-> NoSettlement,
                              todo |-> CreateExpenseUpdates(o.payerId, o.amount, o.splits),
                              pending |-> NoPending]]
                /\ nextExpenseId' = nextExpenseId + 1
           ELSE UNCHANGED <<txs, nextExpenseId>>
        /\ response' = IF o.status = 201 THEN response
                       ELSE Respond("createExpense", o.status, "pre")
        /\ UNCHANGED <<balance, expenses, settlements, suggested, resolverVars, simplifierVars>>

\* A faulty variant of DeleteExpenseOutcome: the payer check is missing.
DeleteExpenseOutcomeAnyUser(userId, found) ==
    IF found = {} THEN 404 ELSE 200

\* DELETE /:groupId/expenses/:expenseId up to the transaction: the status of
\* a request that ends there (404, 403), or 200 when the transaction is to
\* run.  `found` holds the result of expense.findFirst (at most one row).
DeleteExpenseOutcome(userId, found) ==
    IF found = {} THEN 404
    ELSE IF (CHOOSE e \in found : TRUE).payerId # userId THEN 403
    ELSE 200

\* DELETE /:groupId/expenses/:expenseId from the request to the transaction:
\* the expense is read (findFirst) outside the transaction.
ExpenseDelete ==
    /\ \E userId \in Members \cup {Outsider}, expenseId \in 1..MaxExpenses :
        LET found == {e \in expenses : e.id = expenseId}
            status == DeleteExpenseOutcome(userId, found)
        IN  IF status # 200
            THEN /\ response' = Respond("deleteExpense", status, "pre")
                 /\ UNCHANGED <<txs>>
            ELSE LET expense == CHOOSE e \in found : TRUE
                 IN  /\ FreeSlots # {}
                     /\ txs' = [txs EXCEPT ![FirstFree] =
                                  [op |-> "deleteExpense", userId |-> userId,
                                   expense |-> expense,
                                   settlement |-> NoSettlement,
                                   todo |-> DeleteExpenseUpdates(expense),
                                   pending |-> NoPending]]
                     /\ UNCHANGED response
    /\ UNCHANGED <<balance, expenses, settlements, nextExpenseId,
                   suggested, resolverVars, simplifierVars>>

SettlementAmounts == {0, 1}

\* POST /:groupId/settlements from the request to the transaction's first
\* statement, tx.settlement.create, for one request body.
SettlementRequest(fromUserId, toUserId, amount) ==
    /\ IF amount <= 0
       THEN /\ response' = Respond("createSettlement", 400, "pre")
            /\ UNCHANGED txs
       ELSE IF fromUserId = toUserId
       THEN /\ response' = Respond("createSettlement", 400, "pre")
            /\ UNCHANGED txs
       ELSE IF Cardinality({fromUserId, toUserId} \cap Members) # 2
       THEN /\ response' = Respond("createSettlement", 400, "pre")
            /\ UNCHANGED txs
       ELSE /\ FreeSlots # {}
            /\ txs' = [txs EXCEPT ![FirstFree] =
                         [op |-> "createSettlement", userId |-> fromUserId,
                          expense |-> NoExpense,
                          settlement |-> [fromUserId |-> fromUserId,
                                          toUserId |-> toUserId, amount |-> amount],
                          todo |-> SettlementUpdates(fromUserId, toUserId, amount),
                          pending |-> NoPending]]
            /\ UNCHANGED response
    /\ UNCHANGED <<balance, expenses, settlements, nextExpenseId>>

\* Whether the handler accepts the request and opens a transaction.
SettlementAccepted(fromUserId, toUserId, amount) ==
    /\ amount > 0
    /\ fromUserId # toUserId
    /\ Cardinality({fromUserId, toUserId} \cap Members) = 2

\* A settlement request of any user, while fewer than MaxSettlements
\* settlements are recorded or being recorded.
SettlementCreate ==
    /\ \E fromUserId \in SettlementRequesters, toUserId \in Members \cup {Outsider},
          amount \in SettlementAmounts :
        /\ SettlementAccepted(fromUserId, toUserId, amount)
             => Len(settlements)
                  + Cardinality({i \in OpenSlots : txs[i].op = "createSettlement"})
                  < MaxSettlements
        /\ SettlementRequest(fromUserId, toUserId, amount)
    /\ UNCHANGED <<suggested, resolverVars, simplifierVars>>

\* The next `await tx.groupMember.update(...)` of an open transaction.
TxUpdate ==
    \E i \in OpenSlots :
        /\ txs[i].todo # <<>>
        /\ LET u == Head(txs[i].todo)
               w == GroupMemberUpdate(balance, txs[i].pending, u.userId, u.delta)
           IN  /\ balance' = w.balance
               /\ txs' = [txs EXCEPT ![i].todo = Tail(@), ![i].pending = w.pending]
        /\ UNCHANGED <<expenses, settlements, nextExpenseId, response,
                       suggested, resolverVars, simplifierVars>>

\* A faulty variant of ExpenseRowGone: deleting a missing row is not an error.
ExpenseRowGoneIgnored(t) == FALSE

\* tx.expense.delete({where: {id}}) finds no row to delete (and throws).
ExpenseRowGone(t) == t.op = "deleteExpense" /\ t.expense \notin expenses

\* The end of a transaction callback.  A deletion ends with tx.expense.delete,
\* which throws when the row is gone (and the transaction rolls back);
\* otherwise the transaction commits: the buffered increments and the row
\* created or deleted become visible together.
TxCommit ==
    \E i \in OpenSlots :
        /\ txs[i].todo = <<>>
        /\ LET t == txs[i]
               gone == ExpenseRowGone(t)
           IN  IF gone
               THEN /\ response' = Respond(t.op, 500, "tx")
                    /\ UNCHANGED <<balance, expenses, settlements>>
               ELSE /\ balance' = [u \in Members |-> balance[u] + t.pending[u]]
                    /\ expenses' = CASE t.op = "createExpense" -> expenses \cup {t.expense}
                                     [] t.op = "deleteExpense" -> expenses \ {t.expense}
                                     [] OTHER -> expenses
                    /\ settlements' = IF t.op = "createSettlement"
                                      THEN Append(settlements, t.settlement)
                                      ELSE settlements
                    /\ response' = Respond(t.op, IF t.op = "deleteExpense" THEN 200 ELSE 201,
                                           "tx")
        /\ txs' = [txs EXCEPT ![i] = NoTx]
        /\ UNCHANGED <<nextExpenseId, suggested, resolverVars, simplifierVars>>

\* The database aborts an open transaction (deadlock victim, the interactive
\* transaction's time limit, a lost connection): its writes are dropped and
\* the handler's catch answers 500.
TxRollback ==
    \E i \in OpenSlots :
        /\ response' = Respond(txs[i].op, 500, "tx")
        /\ txs' = [txs EXCEPT ![i] = NoTx]
        /\ UNCHANGED <<balance, expenses, settlements, nextExpenseId,
                       suggested, resolverVars, simplifierVars>>

Next ==
    \/ ExpenseCreate
    \/ ExpenseDelete
    \/ SettlementCreate
    \/ TxUpdate
    \/ TxCommit
    \/ TxRollback

Spec == InitLedger /\ [][Next]_vars

----------------------------------------------------------------------------
(* Settling up: GET /:groupId/balances (settlements/routes.ts) runs the     *)
(* simplifier on the committed balances, and the members then record the    *)
(* suggested transfers with POST /:groupId/settlements.                     *)

\* The orders in which groupMember.findMany (no orderBy) can list the members.
MemberOrders ==
    {o \in [1..Cardinality(Members) -> Members] :
        \A i, j \in 1..Cardinality(Members) : i # j => o[i] # o[j]}

\* A faulty variant of UserBalancesOf: the balances change sign.
UserBalancesOfNegated(order, bal) ==
    [i \in 1..Len(order) |-> [userId |-> order[i], balance |-> -10 * bal[order[i]]]]

\* members.map(m => ({userId, balance: new Decimal(m.balance.toString())})):
\* the stored 2-decimal balances (cents) as the simplifier's Decimals
\* (thousandths).
UserBalancesOf(order, bal) ==
    [i \in 1..Len(order) |-> [userId |-> order[i], balance |-> 10 * bal[order[i]]]]

\* GET /:groupId/balances up to the call of simplifyBalances, asked for when
\* no transaction is open and every transfer suggested before is recorded.
BalancesGet ==
    /\ sPc = "idle" \/ (sPc = "sent" /\ suggested = <<>>)
    /\ OpenSlots = {}
    /\ \E userId \in Members \cup {Outsider} :
         IF userId \notin Members
         THEN /\ response' = Respond("getBalances", 403, "pre")
              /\ UNCHANGED simplifierVars
         ELSE /\ \E order \in MemberOrders : sInput' = UserBalancesOf(order, balance)
              /\ sPc' = "input"
              /\ creditors' = <<>>
              /\ debtors' = <<>>
              /\ creditorIdx' = 0
              /\ debtorIdx' = 0
              /\ sSettlements' = <<>>
              /\ UNCHANGED response
    /\ UNCHANGED <<balance, expenses, settlements, txs, nextExpenseId, suggested,
                   resolverVars>>

\* res.json({balances, settlements, userSummary}): the suggested transfers
\* reach the client.
BalancesRespond ==
    /\ sPc = "returned"
    /\ suggested' = sSettlements
    /\ response' = Respond("getBalances", 200, "done")
    /\ sPc' = "sent"
    /\ UNCHANGED <<balance, expenses, settlements, txs, nextExpenseId, resolverVars,
                   sInput, creditors, debtors, creditorIdx, debtorIdx, sSettlements>>

\* The payer of the next suggested transfer records it: payer = transfer
\* source, payee = transfer destination, amount = transfer amount.
SettleSuggested ==
    /\ sPc = "sent"
    /\ suggested # <<>>
    /\ SettlementRequest(Head(suggested).fromUserId, Head(suggested).toUserId,
                         Head(suggested).amount)
    /\ suggested' = Tail(suggested)
    /\ UNCHANGED <<resolverVars, simplifierVars>>

\* The ledger is used freely until GET /balances is asked for; from then on
\* nothing happens but the simplification and the recording of its transfers.
NextSettleUp ==
    \/ sPc = "idle" /\ Next
    \/ BalancesGet
    \/ SimplifyBegin
    \/ SimplifyStep
    \/ SimplifyReturn
    \/ BalancesRespond
    \/ SettleSuggested
    \/ sPc = "sent" /\ TxUpdate
    \/ sPc = "sent" /\ TxCommit

SpecSettleUp == InitLedger /\ [][NextSettleUp]_vars

----------------------------------------------------------------------------
(* Properties of the split resolver, checked under SpecResolve *)

ResolverReturned == rPc = "returned" /\ rResult.ok

\* C1: every call of resolveSplits that returns shares, for a positive total
\* with 2 fraction digits and a non-empty participant list, returns shares
\* whose amounts sum to totalAmount exactly.
C1_SumEqualsTotal ==
    (ResolverReturned /\ rInput.totalAmount > 0 /\ Len(rInput.participants) > 0)
        => SumAmounts(rResult.splits) = rInput.totalAmount

\* C9: an EQUAL split of a positive total T among n >= 1 participants returns
\* one share per participant in input order; with base = T/n truncated to the
\* cent, the first share is base + (T - n*base) and every other share is base.
C9_EqualSplitShares ==
    (rPc = "returned" /\ rInput.splitType = "EQUAL"
        /\ rInput.totalAmount > 0 /\ Len(rInput.participants) >= 1)
    => LET n == Len(rInput.participants)
           base == rInput.totalAmount \div n
       IN  /\ rResult.ok
           /\ Len(rResult.splits) = n
           /\ \A i \in 1..n :
                /\ rResult.splits[i].userId = rInput.participants[i].userId
                /\ rResult.splits[i].amount =
                     IF i = 1 THEN base + (rInput.totalAmount - n * base) ELSE base

\* C9's case: three distinct participants and a total that leaves a remainder.
C9_Witness ==
    /\ ResolverReturned
    /\ rInput.splitType = "EQUAL"
    /\ Len(rInput.participants) = 3
    /\ rInput.totalAmount = 100
    /\ rResult.splits[1].amount = 34
    /\ rResult.splits[3].userId # rResult.splits[1].userId

\* f_i of C10: T * value_i / 100 truncated down to the cent.
PercentFloor(t, v) == (t * v) \div 100000

RECURSIVE PercentFloorSum(_, _)
PercentFloorSum(t, ps) ==
    IF ps = <<>> THEN 0 ELSE PercentFloor(t, Head(ps).value) + PercentFloorSum(t, Tail(ps))

\* C10: an accepted PERCENTAGE split of a positive total T returns one share
\* per participant in input order; with f_i = T*value_i/100 truncated down to
\* the cent and r = T - sum(f_i), every participant but the first gets f_i and
\* the first gets f_1 + r when r > 0 and f_1 otherwise.
C10_PercentageSplitShares ==
    (ResolverReturned /\ rInput.splitType = "PERCENTAGE" /\ rInput.totalAmount > 0)
    => LET ps == rInput.participants
           t == rInput.totalAmount
           r == t - PercentFloorSum(t, ps)
       IN  /\ Len(rResult.splits) = Len(ps)
           /\ \A i \in 1..Len(ps) :
                /\ rResult.splits[i].userId = ps[i].userId
                /\ rResult.splits[i].amount =
                     IF i = 1 /\ r > 0 THEN PercentFloor(t, ps[1].value) + r
                     ELSE PercentFloor(t, ps[i].value)

\* C10's case: an accepted split of 200.00 whose truncated shares exceed the
\* total (50% and 50.005%), so r < 0 and the first share stays f_1.
C10_Witness ==
    /\ ResolverReturned
    /\ rInput.splitType = "PERCENTAGE"
    /\ rInput.totalAmount = 20000
    /\ Len(rInput.participants) = 2
    /\ rInput.participants[1].value = 50000
    /\ rInput.participants[2].value = 50005
    /\ rResult.splits[1].amount = 10000
    /\ rResult.splits[2].amount = 10001

\* Every participant supplies a value, and every value lies in lo..hi.
ValuesWithin(ps, lo, hi) ==
    \A i \in 1..Len(ps) : ps[i].hasValue /\ lo <= ps[i].value /\ ps[i].value <= hi

\* C11: a PERCENTAGE split whose percentages are each in [0,100] and sum to
\* exactly 100, of a positive total with 2 fraction digits, returns shares
\* that sum to exactly the total.
C11_ExactPercentagesSumToTotal ==
    (rPc = "returned" /\ rInput.splitType = "PERCENTAGE" /\ rInput.totalAmount > 0
        /\ ValuesWithin(rInput.participants, 0, 100000)
        /\ SumValues(rInput.participants) = 100000)
    => (rResult.ok /\ SumAmounts(rResult.splits) = rInput.totalAmount)

\* C11's case: 1.00 at 33.33%, 33.33% and 33.34% truncates to 0.33 each, and
\* the remaining cent goes to the first share.
C11_Witness ==
    /\ ResolverReturned
    /\ rInput.splitType = "PERCENTAGE"
    /\ rInput.totalAmount = 100
    /\ Len(rInput.participants) = 3
    /\ rInput.participants[1].value = 33330
    /\ rInput.participants[2].value = 33330
    /\ rInput.participants[3].value = 33340
    /\ rResult.splits[1].amount = 34
    /\ rResult.splits[2].amount = 33
    /\ rResult.splits[3].amount = 33

\* Every participant supplies a value >= 0.
ValuesNonNegative(ps) ==
    \A i \in 1..Len(ps) : ps[i].hasValue /\ ps[i].value >= 0

\* The values sum to the target (in thousandths) within 0.01.
WithinTolerance(ps, target) == Abs(SumValues(ps) - target) <= 10

\* C12 as stated: resolveSplits with policy EXACT returns shares if and only
\* if every participant supplies a value >= 0 and |sum(values) - totalAmount|
\* <= 0.01; in every other case it fails with the missing/negative value
\* error or the mismatch error and returns no shares.
C12_ExactReturnsIffValuesValid ==
    (rPc = "returned" /\ rInput.splitType = "EXACT")
    => LET ps == rInput.participants
           valid == ValuesNonNegative(ps) /\ WithinTolerance(ps, 10 * rInput.totalAmount)
       IN  /\ rResult.ok <=> valid
           /\ ~rResult.ok =>
                /\ rResult.splits = <<>>
                /\ rResult.error \in {"Invalid exact amount",
                                      "Exact split amounts don't equal total"}

\* C12 (amended): resolveSplits with policy EXACT returns shares if and only
\* if the participant list is not empty, every participant supplies a value
\* >= 0 and |sum(values) - totalAmount| <= 0.01; in every other case it
\* returns no shares and fails with the at-least-one-participant error (empty
\* list), the missing/negative value error, or else the mismatch error.
C12_ExactReturnsIffNonEmptyAndValid ==
    (rPc = "returned" /\ rInput.splitType = "EXACT")
    => LET ps == rInput.participants
           near == WithinTolerance(ps, 10 * rInput.totalAmount)
       IN  /\ rResult.ok <=> (Len(ps) >= 1 /\ ValuesNonNegative(ps) /\ near)
           /\ ~rResult.ok =>
                /\ rResult.splits = <<>>
                /\ rResult.error =
                     IF Len(ps) = 0 THEN "At least one participant is required"
                     ELSE IF ~ValuesNonNegative(ps) THEN "Invalid exact amount"
                     ELSE "Exact split amounts don't equal total"

\* C12's case: two exact amounts whose sum is exactly 0.01 above the total
\* (0.015 + 0.015 for 0.02) are accepted.
C12_Witness ==
    /\ ResolverReturned
    /\ rInput.splitType = "EXACT"
    /\ rInput.totalAmount = 2
    /\ Len(rInput.participants) = 2
    /\ rInput.participants[1].value = 15
    /\ rInput.participants[2].value = 15
    /\ Len(rResult.splits) = 2

\* C13: resolveSplits with policy PERCENTAGE returns shares if and only if
\* every participant supplies a value with 0 <= value <= 100 and
\* |sum(values) - 100| <= 0.01; in every other case it fails with an error and
\* returns no shares.
C13_PercentageReturnsIffValid ==
    (rPc = "returned" /\ rInput.splitType = "PERCENTAGE")
    => LET ps == rInput.participants
       IN  /\ rResult.ok <=> (ValuesWithin(ps, 0, 100000) /\ WithinTolerance(ps, 100000))
           /\ ~rResult.ok => (rResult.splits = <<>> /\ rResult.error # "")

DuplicateUserIds(ps) == Cardinality({ps[i].userId : i \in 1..Len(ps)}) # Len(ps)

\* C14: resolveSplits fails and returns no shares whenever the participant
\* list is empty, totalAmount is not strictly positive, or some participant id
\* occurs more than once in the participant list.
C14_ResolveRejectsBadInput ==
    (rPc = "returned"
        /\ (\/ Len(rInput.participants) = 0
            \/ rInput.totalAmount <= 0
            \/ DuplicateUserIds(rInput.participants)))
    => (~rResult.ok /\ rResult.splits = <<>>)

Reports(errors, msg) == \E i \in 1..Len(errors) : errors[i] = msg

\* C15: validateSplitInput reports the empty-participants error exactly when
\* the list is empty, the amount error exactly when totalAmount <= 0, the
\* duplicate error exactly when some userId occurs twice, and a sum error for
\* EXACT (PERCENTAGE) exactly when the supplied values differ from totalAmount
\* (from 100) by more than 0.01; for an EQUAL split it returns the empty list
\* exactly when none of the first three conditions holds.
C15_ValidateReportsExactly ==
    (rPc \in {"validated", "returned"})
    => LET ps == rInput.participants
           t == rInput.totalAmount
           st == rInput.splitType
       IN  /\ Reports(rErrors, "At least one participant is required") <=> Len(ps) = 0
           /\ Reports(rErrors, "Amount must be greater than 0") <=> t <= 0
           /\ Reports(rErrors, "Duplicate participants are not allowed")
                <=> DuplicateUserIds(ps)
           /\ Reports(rErrors, "Exact amounts must sum to total")
                <=> (st = "EXACT" /\ ~WithinTolerance(ps, 10 * t))
           /\ Reports(rErrors, "Percentages must sum to 100")
                <=> (st = "PERCENTAGE" /\ ~WithinTolerance(ps, 100000))
           /\ st = "EQUAL" =>
                (rErrors = <<>> <=> (Len(ps) # 0 /\ t > 0 /\ ~DuplicateUserIds(ps)))

\* C16: every share amount returned by resolveSplits is greater than or equal
\* to zero, for every input on which it returns shares.
C16_SharesNonNegative ==
    ResolverReturned
    => \A i \in 1..Len(rResult.splits) : rResult.splits[i].amount >= 0

\* C28: whenever validateSplitInput returns no errors for (splitType, amount,
\* participants), the resolveSplits call on the same input returns shares and
\* does not throw.
C28_ValidatedInputResolves ==
    (rPc = "returned" /\ rErrors = <<>>) => rResult.ok

\* C29: for an EQUAL split of a positive total among n participants, the
\* remainder given to the first participant is r cents with 0 <= r <= n - 1:
\* the first share exceeds every other share by at least 0 and at most n - 1
\* cents, and no share is below the total divided by n truncated to the cent.
C29_EqualRemainderBounded ==
    (rPc = "returned" /\ rInput.splitType = "EQUAL"
        /\ rInput.totalAmount > 0 /\ Len(rInput.participants) >= 1)
    => LET n == Len(rInput.participants)
           floor == rInput.totalAmount \div n
           first == rResult.splits[1].amount
       IN  /\ rResult.ok
           /\ Len(rResult.splits) = n
           /\ first - floor \in 0..(n - 1)
           /\ \A i \in 2..n :
                /\ rResult.splits[i].amount >= floor
                /\ first - rResult.splits[i].amount \in 0..(n - 1)

\* C29's case: 0.02 among three participants, where the first participant
\* receives the largest possible remainder, n - 1 = 2 cents.
C29_Witness ==
    /\ ResolverReturned
    /\ rInput.splitType = "EQUAL"
    /\ rInput.totalAmount = 2
    /\ Len(rInput.participants) = 3
    /\ rResult.splits[1].amount = 2
    /\ rResult.splits[2].amount = 0

----------------------------------------------------------------------------
(* Properties of the balance simplifier, checked under SpecSimplify *)

RECURSIVE SumBalances(_)
SumBalances(bs) ==
    IF bs = <<>> THEN 0 ELSE Head(bs).balance + SumBalances(Tail(bs))

RECURSIVE SumPositive(_)
SumPositive(bs) ==
    IF bs = <<>> THEN 0
    ELSE (IF Head(bs).balance > 0 THEN Head(bs).balance ELSE 0) + SumPositive(Tail(bs))

\* Total emitted to (received by) and from (paid by) a participant, in cents.
RECURSIVE ReceivedBy(_, _)
ReceivedBy(p, ts) ==
    IF ts = <<>> THEN 0
    ELSE (IF Head(ts).toUserId = p THEN Head(ts).amount ELSE 0) + ReceivedBy(p, Tail(ts))

RECURSIVE PaidBy(_, _)
PaidBy(p, ts) ==
    IF ts = <<>> THEN 0
    ELSE (IF Head(ts).fromUserId = p THEN Head(ts).amount ELSE 0) + PaidBy(p, Tail(ts))

DistinctIds(bs) == Cardinality({bs[i].userId : i \in 1..Len(bs)}) = Len(bs)

OnCentGrid(bs) == \A i \in 1..Len(bs) : bs[i].balance % 10 = 0

\* C3 as stated: for every input whose balances sum to zero, the amounts of
\* the emitted transfers sum to the sum of the positive input balances.
C3_TransfersSumToCredit ==
    (sPc = "returned" /\ SumBalances(sInput) = 0)
        => 10 * SumAmounts(sSettlements) = SumPositive(sInput)

\* C3 (amended): for every input whose balances have at most 2 fraction
\* digits and sum to zero, the amounts of the emitted transfers sum to the
\* sum of the positive input balances.
C3_CentTransfersSumToCredit ==
    (sPc = "returned" /\ OnCentGrid(sInput) /\ SumBalances(sInput) = 0)
        => 10 * SumAmounts(sSettlements) = SumPositive(sInput)

\* C3's case: two creditors and two debtors in whole cents, three transfers.
C3_Witness ==
    /\ sPc = "returned"
    /\ OnCentGrid(sInput)
    /\ SumBalances(sInput) = 0
    /\ Len(sInput) = 4
    /\ Len(sSettlements) = 3
    /\ SumPositive(sInput) = 40

SettlesEveryone ==
    \A i \in 1..Len(sInput) :
        10 * (ReceivedBy(sInput[i].userId, sSettlements)
              - PaidBy(sInput[i].userId, sSettlements)) = sInput[i].balance

\* C4 as stated: for every input with distinct ids whose balances sum to
\* zero, each participant's received total minus paid total equals their
\* input balance.
C4_TransfersSettleEveryone ==
    (sPc = "returned" /\ DistinctIds(sInput) /\ SumBalances(sInput) = 0)
        => SettlesEveryone

\* C4 (amended): for every input with distinct ids whose balances have at
\* most 2 fraction digits and sum to zero, each participant's received total
\* minus paid total equals their input balance.
C4_CentTransfersSettleEveryone ==
    (sPc = "returned" /\ OnCentGrid(sInput) /\ DistinctIds(sInput)
        /\ SumBalances(sInput) = 0)
        => SettlesEveryone

\* C4's case: one debtor of 0.03 pays two creditors, 0.02 and 0.01.
C4_Witness ==
    /\ sPc = "returned"
    /\ sInput = <<[userId |-> "A", balance |-> -30], [userId |-> "B", balance |-> 10],
                  [userId |-> "C", balance |-> 20]>>
    /\ sSettlements = <<[fromUserId |-> "A", toUserId |-> "C", amount |-> 2],
                        [fromUserId |-> "A", toUserId |-> "B", amount |-> 1]>>

\* C5: every transfer emitted, for any input, carries an amount (as stored,
\* after rounding to 2 decimals) strictly greater than zero.
C5_EmittedAmountsPositive ==
    \A i \in 1..Len(sSettlements) : sSettlements[i].amount > 0

\* Whether some input entry of participant p satisfies the test.
HasNegativeEntry(p) == \E i \in 1..Len(sInput) : sInput[i].userId = p /\ sInput[i].balance < 0

HasPositiveEntry(p) == \E i \in 1..Len(sInput) : sInput[i].userId = p /\ sInput[i].balance > 0

\* The participants whose input balance is zero (every entry carrying the id).
ZeroParticipants ==
    {sInput[i].userId : i \in 1..Len(sInput)}
        \ {sInput[i].userId : i \in {j \in 1..Len(sInput) : sInput[j].balance # 0}}

\* C17: every transfer emitted by simplifyBalances goes from a participant
\* whose input balance is negative to a participant whose input balance is
\* positive; a participant whose input balance is zero never appears as
\* source or destination of any transfer.
C17_TransfersFromDebtorsToCreditors ==
    \A k \in 1..Len(sSettlements) :
        /\ HasNegativeEntry(sSettlements[k].fromUserId)
        /\ HasPositiveEntry(sSettlements[k].toUserId)
        /\ sSettlements[k].fromUserId \notin ZeroParticipants
        /\ sSettlements[k].toUserId \notin ZeroParticipants

\* C17's case: a list with a zero-balance participant next to one creditor
\* and two debtors, settled by two transfers.
C17_Witness ==
    /\ sPc = "returned"
    /\ DistinctIds(sInput)
    /\ Len(sInput) = 4
    /\ ZeroParticipants # {}
    /\ Len(sSettlements) = 2
    /\ sSettlements[1].toUserId = sSettlements[2].toUserId
    /\ sSettlements[1].fromUserId # sSettlements[2].fromUserId

\* The numbers of creditors (entries with positive balance) and debtors
\* (entries with negative balance) of the input.
NumCreditors == Cardinality({i \in 1..Len(sInput) : sInput[i].balance > 0})

NumDebtors == Cardinality({i \in 1..Len(sInput) : sInput[i].balance < 0})

\* C18 as stated: for every input, the number of emitted transfers is at most
\* min(number of creditors, number of debtors).
C18_AtMostMinOfCreditorsDebtors ==
    sPc = "returned" => Len(sSettlements) <= Min(NumCreditors, NumDebtors)

\* C18 (amended): for every input, the number of emitted transfers is at
\* least min(number of creditors, number of debtors) and, when both creditors
\* and debtors exist, at most their total number minus one.
C18_BetweenMinAndTotalMinusOne ==
    sPc = "returned"
    => /\ Len(sSettlements) >= Min(NumCreditors, NumDebtors)
       /\ (NumCreditors > 0 /\ NumDebtors > 0)
            => Len(sSettlements) <= NumCreditors + NumDebtors - 1

\* C18's case: creditors of 0.03 and 0.01 against two debtors of 0.02 each
\* take three transfers, one more than min(2, 2).
C18_Witness ==
    /\ sPc = "returned"
    /\ sInput = <<[userId |-> "A", balance |-> 30], [userId |-> "B", balance |-> 10],
                  [userId |-> "C", balance |-> -20], [userId |-> "D", balance |-> -20]>>
    /\ sSettlements = <<[fromUserId |-> "C", toUserId |-> "A", amount |-> 2],
                        [fromUserId |-> "D", toUserId |-> "A", amount |-> 1],
                        [fromUserId |-> "D", toUserId |-> "B", amount |-> 1]>>

\* C19: for every input with n participants, the number of emitted transfers
\* is at most n - 1 when n >= 1; more precisely it is at most (number of
\* creditors + number of debtors - 1) when both exist and 0 otherwise.
C19_AtMostParticipantsMinusOne ==
    sPc = "returned"
    => /\ Len(sInput) >= 1 => Len(sSettlements) <= Len(sInput) - 1
       /\ Len(sSettlements) <= IF NumCreditors > 0 /\ NumDebtors > 0
                               THEN NumCreditors + NumDebtors - 1
                               ELSE 0

\* C19's case: one creditor and three debtors, no zero balance: 3 = n - 1
\* transfers.
C19_Witness ==
    /\ sPc = "returned"
    /\ Len(sInput) = 4
    /\ NumCreditors = 1
    /\ NumDebtors = 3
    /\ Len(sSettlements) = 3

\* The sum of the balances at the positions in S.
RECURSIVE SumAt(_, _)
SumAt(bs, S) ==
    IF S = {} THEN 0
    ELSE LET i == CHOOSE x \in S : TRUE IN bs[i].balance + SumAt(bs, S \ {i})

MaxOf(S) == CHOOSE x \in S : \A y \in S : y <= x

\* The largest number of groups into which the positions in S (whose balances
\* sum to zero) can be split so that every group sums to zero.
RECURSIVE MaxZeroSumGroups(_, _)
MaxZeroSumGroups(bs, S) ==
    IF S = {} THEN 0
    ELSE LET first == CHOOSE x \in S : \A y \in S : x <= y
             groups == {T \in SUBSET S : first \in T /\ SumAt(bs, T) = 0}
         IN  MaxOf({1 + MaxZeroSumGroups(bs, S \ T) : T \in groups})

\* The least number of positive directed transfers that settle balances
\* summing to zero.  The participants that a settling list links form groups
\* that each sum to zero; a group of k participants needs at least k - 1
\* transfers and k - 1 suffice, so the least number is the number of
\* participants with a non-zero balance minus the largest number of zero-sum
\* groups.
MinTransfers(bs) ==
    LET S == {i \in 1..Len(bs) : bs[i].balance # 0}
    IN  Cardinality(S) - MaxZeroSumGroups(bs, S)

\* C20: for every input whose balances sum to zero (taken here with distinct
\* ids and whole-cent balances, where settling lists exist), the emitted
\* transfer list is minimal: no list of positive directed transfers with
\* fewer entries settles all the input balances to zero.
C20_TransferListMinimal ==
    (sPc = "returned" /\ DistinctIds(sInput) /\ OnCentGrid(sInput)
        /\ SumBalances(sInput) = 0)
    => Len(sSettlements) <= MinTransfers(sInput)

\* C21: simplifyBalances terminates and returns a transfer list without
\* raising an error on every finite balance list, including the empty list,
\* all-zero lists, lists with only creditors or only debtors, and lists whose
\* balances do not sum to zero.
C21_SimplifyTerminates == <>(sPc = "returned")

\* C21's case: a call has returned for a list of two creditors and one
\* debtor whose balances do not sum to zero.
C21_Witness ==
    /\ sPc = "returned"
    /\ SumBalances(sInput) # 0
    /\ NumCreditors = 2
    /\ NumDebtors = 1
    /\ Len(sSettlements) = 2

\* No debtor pays more than they owe, no creditor receives more than they
\* are owed, and the total transferred is the smaller of total credit and
\* total debt (amounts in cents against balances in thousandths).
MatchesWithoutOverpaying ==
    /\ \A i \in 1..Len(sInput) :
          /\ sInput[i].balance < 0
                => 10 * PaidBy(sInput[i].userId, sSettlements) <= -sInput[i].balance
          /\ sInput[i].balance > 0
                => 10 * ReceivedBy(sInput[i].userId, sSettlements) <= sInput[i].balance
    /\ 10 * SumAmounts(sSettlements)
          = Min(SumPositive(sInput), SumPositive(sInput) - SumBalances(sInput))

\* C22 as stated: for every input with distinct participant ids, including
\* inputs that do not sum to zero, no debtor pays in total more than the
\* absolute value of their balance, no creditor receives in total more than
\* their balance, and the total transferred equals min(sum of positive
\* balances, sum of absolute negative balances).
C22_NoOverpayment ==
    (sPc = "returned" /\ DistinctIds(sInput)) => MatchesWithoutOverpaying

\* C22 (amended): the same for every input with distinct participant ids
\* whose balances have at most 2 fraction digits.
C22_CentNoOverpayment ==
    (sPc = "returned" /\ DistinctIds(sInput) /\ OnCentGrid(sInput))
        => MatchesWithoutOverpaying

\* C22's case: whole-cent balances of two creditors and two debtors with
\* more credit than debt, so that credit is left unmatched.
C22_Witness ==
    /\ sPc = "returned"
    /\ DistinctIds(sInput)
    /\ OnCentGrid(sInput)
    /\ NumCreditors = 2
    /\ NumDebtors = 2
    /\ SumBalances(sInput) > 0
    /\ Len(sSettlements) = 3
    /\ creditorIdx < Len(creditors)

\* The transfer a loop iteration emits, seen from the state before it: it is
\* the last element of the grown list, it goes from the debtor to the
\* creditor under the cursors, and its amount is the smaller of their
\* remaining balances (as stored: rounded to 2 decimals).
EmitsBetweenCursors ==
    LET t == sSettlements'[Len(sSettlements')]
        creditor == creditors[creditorIdx + 1]
        debtor == debtors[debtorIdx + 1]
    IN  /\ t.toUserId = creditor.userId
        /\ t.fromUserId = debtor.userId
        /\ t.amount = RoundHalfUp(Min(creditor.balance, debtor.balance))

\* The input balance (absolute value) of the participant with id p, for
\* inputs with distinct ids.
InputAmountOf(p) ==
    Abs(sInput[CHOOSE i \in 1..Len(sInput) : sInput[i].userId = p].balance)

PositionOf(p) == CHOOSE i \in 1..Len(sInput) : sInput[i].userId = p

\* Input entry i is consumed before input entry j: larger absolute balance
\* first, equal ones in input order.
ConsumedBefore(i, j) ==
    \/ Abs(sInput[i].balance) > Abs(sInput[j].balance)
    \/ Abs(sInput[i].balance) = Abs(sInput[j].balance) /\ i < j

\* C25: simplifyBalances consumes creditors in non-increasing order of input
\* balance and debtors in non-increasing order of absolute input balance,
\* with participants of equal amount consumed in their input order;
\* consequently, in the output each creditor's (and each debtor's) transfers
\* form one contiguous run and the runs appear in that sorted order.
C25_ConsumedInSortedStableOrder ==
    (sPc \in {"loop", "returned"} /\ DistinctIds(sInput))
    => /\ \A j, k \in 1..Len(creditors) :
            j < k => ConsumedBefore(PositionOf(creditors[j].userId),
                                    PositionOf(creditors[k].userId))
       /\ \A j, k \in 1..Len(debtors) :
            j < k => ConsumedBefore(PositionOf(debtors[j].userId),
                                    PositionOf(debtors[k].userId))
       /\ {creditors[j].userId : j \in 1..Len(creditors)}
            = {sInput[i].userId : i \in {x \in 1..Len(sInput) : sInput[x].balance > 0}}
       /\ {debtors[j].userId : j \in 1..Len(debtors)}
            = {sInput[i].userId : i \in {x \in 1..Len(sInput) : sInput[x].balance < 0}}
       /\ \A a, b \in 1..Len(sSettlements) :
            a < b =>
                /\ \/ sSettlements[a].toUserId = sSettlements[b].toUserId
                   \/ ConsumedBefore(PositionOf(sSettlements[a].toUserId),
                                     PositionOf(sSettlements[b].toUserId))
                /\ \/ sSettlements[a].fromUserId = sSettlements[b].fromUserId
                   \/ ConsumedBefore(PositionOf(sSettlements[a].fromUserId),
                                     PositionOf(sSettlements[b].fromUserId))

\* C25's case: two creditors of 0.01 and two debtors of 0.01, paired in input
\* order.
C25_Witness ==
    /\ sPc = "returned"
    /\ sInput = <<[userId |-> "A", balance |-> -10], [userId |-> "B", balance |-> 10],
                  [userId |-> "C", balance |-> 10], [userId |-> "D", balance |-> -10]>>
    /\ sSettlements = <<[fromUserId |-> "A", toUserId |-> "B", amount |-> 1],
                        [fromUserId |-> "D", toUserId |-> "C", amount |-> 1]>>

----------------------------------------------------------------------------
(* Properties of the ledger workflows, checked under Spec *)

\* What an expense row with its splits says was applied to member m: the
\* total credited if m paid, minus m's shares.
RECURSIVE ShareOf(_, _)
ShareOf(m, splits) ==
    IF splits = <<>> THEN 0
    ELSE (IF Head(splits).userId = m THEN Head(splits).amount ELSE 0)
         + ShareOf(m, Tail(splits))

EffectOfExpense(e, m) ==
    (IF e.payerId = m THEN e.amount ELSE 0) - ShareOf(m, e.splits)

RECURSIVE EffectOfExpenses(_, _)
EffectOfExpenses(es, m) ==
    IF es = {} THEN 0
    ELSE LET e == CHOOSE x \in es : TRUE
         IN  EffectOfExpense(e, m) + EffectOfExpenses(es \ {e}, m)

RECURSIVE EffectOfSettlements(_, _)
EffectOfSettlements(ss, m) ==
    IF ss = <<>> THEN 0
    ELSE (IF Head(ss).fromUserId = m THEN Head(ss).amount ELSE 0)
         - (IF Head(ss).toUserId = m THEN Head(ss).amount ELSE 0)
         + EffectOfSettlements(Tail(ss), m)

RECURSIVE SumOver(_, _)
SumOver(f, S) ==
    IF S = {} THEN 0
    ELSE LET x == CHOOSE y \in S : TRUE IN f[x] + SumOver(f, S \ {x})

\* C2: starting from all-zero balances, after any sequence of successful
\* expense creations, deletions and settlement recordings, the member
\* balances of the group sum to zero.
C2_BalancesSumToZero == SumOver(balance, Members) = 0

\* C6: in every state another request can observe (the committed balances and
\* rows), each expense's balance mutations are applied in full or not at all:
\* every member's balance is the total effect of the committed expense rows
\* (payer credit and every participant debit) and settlement rows.
C6_ExpenseAppliedAtomically ==
    \A m \in Members :
        balance[m] = EffectOfExpenses(expenses, m) + EffectOfSettlements(settlements, m)

\* C6's case: a creation transaction has issued its payer credit but not yet
\* all its debits, while another expense is already committed.
C6_Witness ==
    /\ expenses # {}
    /\ \E i \in 1..MaxTx :
          /\ txs[i].op = "createExpense"
          /\ txs[i].todo # <<>>
          /\ txs[i].pending[txs[i].expense.payerId] = txs[i].expense.amount
          /\ Len(txs[i].todo) < Len(txs[i].expense.splits)

\* C7: a creation request that fails before the storage transaction (schema
\* violation, payer or participant not a member, validateSplitInput error,
\* resolveSplits throwing) changes no member balance, creates no expense or
\* split row and opens no transaction.
C7_RejectedCreationChangesNothing ==
    [][(response' # response /\ response'.op = "createExpense"
            /\ response'.phase = "pre")
        => (balance' = balance /\ expenses' = expenses
            /\ settlements' = settlements /\ txs' = txs
            /\ nextExpenseId' = nextExpenseId)]_vars

\* C7's case: a creation request is answered 500 because resolveSplits threw,
\* in a ledger that already holds an expense and open transactions.
C7_Witness ==
    /\ response = [op |-> "createExpense", status |-> 500, phase |-> "pre"]
    /\ expenses # {}
    /\ \E i \in 1..MaxTx : txs[i].op = "createExpense"

\* C8: the commit that removes an expense row changes every member's balance
\* by the negative of what the commit that created it changed: the payer is
\* decremented by the stored total and each participant incremented by their
\* stored share.
C8_DeletionReversesCreation ==
    [][\A e \in expenses \cup expenses' :
          /\ (e \in expenses /\ e \notin expenses')
                => \A m \in Members : balance'[m] = balance[m] - EffectOfExpense(e, m)
          /\ (e \notin expenses /\ e \in expenses')
                => \A m \in Members : balance'[m] = balance[m] + EffectOfExpense(e, m)]_vars

\* C8's case: an expense was created, a settlement was recorded, and then the
\* expense was deleted: the balances are those of the settlement alone.
C8_Witness ==
    /\ response = [op |-> "deleteExpense", status |-> 200, phase |-> "tx"]
    /\ nextExpenseId > 1
    /\ expenses = {}
    /\ Len(settlements) = 1
    /\ \A m \in Members : balance[m] = EffectOfSettlements(settlements, m)

\* C23: a successfully recorded settlement of amount a > 0 from payer f to
\* payee t (distinct members of the group) increases f's balance by exactly
\* a, decreases t's balance by exactly a, and leaves the balance of every
\* other member unchanged; a is not limited by any suggested transfer amount
\* or by what f owes.
C23_SettlementMovesExactlyAmount ==
    [][Len(settlements') = Len(settlements) + 1
        => LET st == settlements'[Len(settlements')]
           IN  /\ st.amount > 0
               /\ st.fromUserId # st.toUserId
               /\ {st.fromUserId, st.toUserId} \subseteq Members
               /\ \A m \in Members :
                    balance'[m] = balance[m]
                                  + (IF m = st.fromUserId THEN st.amount ELSE 0)
                                  - (IF m = st.toUserId THEN st.amount ELSE 0)]_vars

\* C23's case: a payment has been recorded in a group without expenses, where
\* the payer owed nothing and no transfer was suggested: the payer stands at
\* +0.01, the payee at -0.01.
C23_Witness ==
    /\ response = [op |-> "createSettlement", status |-> 201, phase |-> "tx"]
    /\ expenses = {}
    /\ nextExpenseId = 1
    /\ Len(settlements) = 1
    /\ balance[settlements[1].fromUserId] = settlements[1].amount
    /\ balance[settlements[1].toUserId] = -settlements[1].amount

\* C27: the balance effect of an expense is reversed at most once: under any
\* interleaving of concurrent delete requests for the same expense, a delete
\* transaction either removes the record and reverses its effect, or ends
\* with an error and changes no balance; one that finds the record already
\* deleted always ends the second way, so the balances reflect exactly one
\* reversal.
C27_ReversedAtMostOnce ==
    [][\A i \in 1..MaxTx :
          (txs[i].op = "deleteExpense" /\ txs'[i].op = "none")
          => LET e == txs[i].expense
                 reversed == /\ e \in expenses
                             /\ expenses' = expenses \ {e}
                             /\ \A m \in Members :
                                  balance'[m] = balance[m] - EffectOfExpense(e, m)
                 failed == /\ expenses' = expenses
                           /\ balance' = balance
                           /\ response' = Respond("deleteExpense", 500, "tx")
             IN  /\ reversed \/ failed
                 /\ e \notin expenses => failed]_vars

\* C27's case: two delete requests read the same expense; one transaction has
\* committed, the other has issued all its balance updates and is about to
\* delete the record, which is gone.
C27_Witness ==
    /\ response = [op |-> "deleteExpense", status |-> 200, phase |-> "tx"]
    /\ \E i \in 1..MaxTx :
          /\ txs[i].op = "deleteExpense"
          /\ txs[i].todo = <<>>
          /\ txs[i].expense \notin expenses
          /\ txs[i].pending[txs[i].expense.payerId] # 0

\* C30: a delete request for an expense made by a user who is not that
\* expense's payer, or for an expense id that does not exist in the group, is
\* rejected (a deletion transaction is opened only for an existing expense
\* and its payer) and leaves every member balance and the expense record
\* unchanged.
C30_RejectedDeletionChangesNothing ==
    [][/\ (response' # response /\ response'.op = "deleteExpense"
              /\ response'.phase = "pre")
          => (response'.status \in {403, 404} /\ balance' = balance
              /\ expenses' = expenses /\ txs' = txs)
       /\ \A i \in 1..MaxTx :
            (txs[i].op = "none" /\ txs'[i].op = "deleteExpense")
            => /\ txs'[i].expense \in expenses
               /\ txs'[i].userId = txs'[i].expense.payerId]_vars

\* C30's case: a delete request for an existing expense by a member who did
\* not pay it has been answered 403.
C30_Witness ==
    /\ response = [op |-> "deleteExpense", status |-> 403, phase |-> "pre"]
    /\ expenses # {}
    /\ \E m \in Members : balance[m] # 0

----------------------------------------------------------------------------
(* Properties of settling up, checked under SpecSettleUp *)

\* Every transfer suggested by the last GET /balances has been recorded and
\* its transaction has committed.
SettledUp == sPc = "sent" /\ suggested = <<>> /\ OpenSlots = {}

AllBalancesZero == \A m \in Members : balance[m] = 0

\* C26: in any reachable ledger state whose member balances sum to zero, if
\* every transfer suggested by simplifyBalances for that state is recorded as
\* a settlement and nothing else happens in between, then every member's
\* balance becomes exactly zero and simplifyBalances on the resulting state
\* returns no transfers.
C26_SettlingUpZeroesBalances ==
    /\ (SettledUp /\ SumBalances(sInput) = 0) => AllBalancesZero
    /\ (sPc = "returned" /\ AllBalancesZero) => sSettlements = <<>>

\* C26's case: two transfers were suggested for a ledger with an expense and
\* a settlement, both have been recorded, and every balance is zero.
C26_Witness ==
    /\ SettledUp
    /\ SumBalances(sInput) = 0
    /\ Len(sSettlements) = 2
    /\ expenses # {}
    /\ Len(settlements) = 3
    /\ AllBalancesZero

====
